---- MODULE Spec2Model ----
(***************************************************************************)
(* Dispatcher core of the ScrapCo customer backend: one pickup row in the  *)
(* store, the rejection log, the in-memory dispatchState map with its      *)
(* session objects and timers, and the asynchronous handlers that race on  *)
(* them (dispatchPickup, tryOfferNext, handleOfferTimeout, the sweeper,    *)
(* the vendor callbacks and the customer cancel / find-vendor routes).     *)
(*                                                                         *)
(* Granularity: Node runs a handler without interruption between two       *)
(* awaits.  A handler that is suspended in an await is a task whose pc     *)
(* names the awaited call; one step of a task performs the awaited store   *)
(* or HTTP call and runs the handler's code up to its next await.          *)
(*                                                                         *)
(* Time: assignment_expires_at and timer deadlines are kept relative to    *)
(* the present (deadline - now).  Tick lets one unit of time pass.  A      *)
(* deadline that is more than one unit in the past behaves exactly like    *)
(* one that is one unit in the past, so the values saturate.               *)
(***************************************************************************)
EXTENDS Integers, Sequences, FiniteSets, Bags, TLC

\* ---- bounds of the model -------------------------------------------------
NumVendors == 2          \* rows of vendor_backends
MaxTasks == 2            \* handlers suspended in an await at the same time
MaxRequests == 2         \* requests, crashes and sweeper hits in a run (see requests)

\* ---- program constants ---------------------------------------------------
OfferMinutes == 2                 \* plusMinutesIso(2)
TimerDelay == OfferMinutes + 1    \* 2 * 60 * 1000 + 1000 ms: later than the deadline

Vendors == 1..NumVendors
NoVendor == 0            \* assigned_vendor_ref = null ('unknown' as a vendor id)
NoExp == -2              \* assignment_expires_at = null
NoSid == 0               \* dispatchState.get(pickupId) === undefined
Sids == 1..(MaxTasks + 1)

VARIABLES
  row,            \* the pickup row: status, assigned_vendor_ref, assignment_expires_at,
                  \* cancelled_at
  rejections,     \* pickup_vendor_rejections rows of the pickup
  dispatchState,  \* the Map entry of the pickup: a session id or NoSid
  heap,           \* the session objects that are still referenced
  timers,         \* armed setTimeout handles
  tasks,          \* bag of handlers suspended in an await
  ev,             \* what the last step answered or emitted
  confirms,       \* successful accepts since the last find-vendor request (history)
  requests        \* reject, cancel and find-vendor requests, crashes and sweeper hits so far

vars == <<row, rejections, dispatchState, heap, timers, tasks, ev, confirms, requests>>

statusRequested == "REQUESTED"
statusFindingVendor == "FINDING_VENDOR"
statusAssigned == "ASSIGNED"
statusOnTheWay == "ON_THE_WAY"
statusNoVendorAvailable == "NO_VENDOR_AVAILABLE"
statusCancelled == "CANCELLED"
statusCompleted == "COMPLETED"

Statuses == {statusRequested, statusFindingVendor, statusAssigned, statusOnTheWay,
             statusNoVendorAvailable, statusCancelled, statusCompleted}

\* A test that takes only the final statuses for terminal.
isTerminalStatusFinalOnly(status) == status \in {statusCancelled, statusCompleted}
isTerminalStatus(status) ==
  status \in {statusAssigned, statusOnTheWay, statusCancelled, statusCompleted}

\* ---- comparisons of assignment_expires_at with the present ---------------
\* new Date(expires) > new Date()
IsFuture(exp) == exp # NoExp /\ exp > 0
\* .not('assignment_expires_at', 'is', null).lt('assignment_expires_at', now)
IsPast(exp) == exp # NoExp /\ exp < 0
\* .gte('assignment_expires_at', now)
IsNotPast(exp) == exp # NoExp /\ exp >= 0

\* A dispatcher without the test for an offer that is out.
hasActiveOfferNever(r) == FALSE
\* status === FINDING_VENDOR && assigned_vendor_ref && assignment_expires_at &&
\* new Date(assignment_expires_at) > new Date()
hasActiveOffer(r) == r.status = statusFindingVendor /\ r.avr # NoVendor /\ IsFuture(r.exp)

\* ---- store primitives (conditional updates of the pickup row) ------------
\* A row that was never cancelled, and the update of status and offer columns.
Row(s, v, e) == [status |-> s, avr |-> v, exp |-> e, cancelled_at |-> NoExp]
\* What fetchPickup yields when the store has no row of that id (null).
NoPickup == [status |-> "none", avr |-> NoVendor, exp |-> NoExp, cancelled_at |-> NoExp]
SetRow(r, s, v, e) == [r EXCEPT !.status = s, !.avr = v, !.exp = e]

\* The update without .in('status', [...]).
begin_findingMatchesAny(r) == TRUE
begin_findingMatches(r) ==
  r.status \in {statusRequested, statusNoVendorAvailable, statusFindingVendor}
begin_finding(r) ==
  IF begin_findingMatches(r) THEN [r EXCEPT !.status = statusFindingVendor] ELSE r

\* A dispatch that returns on an empty vendor list without its update.
give_up_no_vendorsSkipped(r) == r
give_up_no_vendors(r) == [r EXCEPT !.status = statusNoVendorAvailable]

give_up(r) == SetRow(r, statusNoVendorAvailable, NoVendor, NoExp)

clearExpiredOfferIfAnyMatches(r) == r.status = statusFindingVendor /\ IsPast(r.exp)
clearExpiredOfferIfAny(r) ==
  IF clearExpiredOfferIfAnyMatches(r) THEN [r EXCEPT !.avr = NoVendor, !.exp = NoExp] ELSE r

\* The reservation without .is('assigned_vendor_ref', null): it would replace
\* an offer that is still in the row.
reserve_offerOverwrites(r) == r.status = statusFindingVendor
reserve_offerMatches(r) == r.status = statusFindingVendor /\ r.avr = NoVendor
reserve_offer(r, v) ==
  IF reserve_offerMatches(r) THEN SetRow(r, statusFindingVendor, v, OfferMinutes) ELSE r

clear_expired_offerMatches(r, v) ==
  r.status = statusFindingVendor /\ v # NoVendor /\ r.avr = v /\ IsPast(r.exp)
clear_expired_offer(r, v) ==
  IF clear_expired_offerMatches(r, v) THEN [r EXCEPT !.avr = NoVendor, !.exp = NoExp] ELSE r

\* The accept without .gte('assignment_expires_at', now): it would take an
\* offer whose deadline has passed.
confirm_assignmentIgnoresDeadline(r, v) ==
  r.avr = v /\ r.status = statusFindingVendor
confirm_assignmentMatches(r, v) ==
  r.avr = v /\ r.status = statusFindingVendor /\ IsNotPast(r.exp)
\* The accept without assignment_expires_at: null in its update: the deadline
\* of the offer would stay in the assigned row.
confirm_assignmentKeepsDeadline(r, v) ==
  IF confirm_assignmentMatches(r, v) THEN [r EXCEPT !.status = statusAssigned] ELSE r
confirm_assignment(r, v) ==
  IF confirm_assignmentMatches(r, v) THEN SetRow(r, statusAssigned, v, NoExp) ELSE r

\* The clear without .eq('assigned_vendor_ref', vendor): a reject would clear
\* the offer of whichever vendor holds it.
reject_offerMatchesAnyVendor(r, v) == r.status = statusFindingVendor /\ r.avr # NoVendor
reject_offerMatches(r, v) == r.status = statusFindingVendor /\ r.avr = v
reject_offer(r, v) ==
  IF reject_offerMatches(r, v) THEN SetRow(r, statusFindingVendor, NoVendor, NoExp) ELSE r

set_on_the_wayMatches(r, v) ==
  r.avr = v /\ r.status \in {statusAssigned, statusOnTheWay}
set_on_the_way(r, v) ==
  IF set_on_the_wayMatches(r, v) THEN [r EXCEPT !.status = statusOnTheWay] ELSE r

\* The completion without .in('status', ['ASSIGNED', 'ON_THE_WAY']): the vendor
\* in the row could complete a pickup it only holds an offer for.
completeIgnoresStatus(r, v) == r.avr = v
completeMatches(r, v) ==
  r.avr = v /\ r.status \in {statusAssigned, statusOnTheWay}
complete(r, v) ==
  IF completeMatches(r, v) THEN [r EXCEPT !.status = statusCompleted] ELSE r

cancel_pickupMatches(r) == r.status # statusCompleted
\* cancelled_at = now(): the stamp is kept relative to the present, like the
\* deadline of an offer.
cancel_pickup(r) ==
  IF cancel_pickupMatches(r)
  THEN [SetRow(r, statusCancelled, NoVendor, NoExp) EXCEPT !.cancelled_at = 0]
  ELSE r

find_vendor_againMatches(r) == ~isTerminalStatus(r.status)
find_vendor_again(r) ==
  IF find_vendor_againMatches(r)
  THEN [SetRow(r, statusFindingVendor, NoVendor, NoExp) EXCEPT !.cancelled_at = NoExp]
  ELSE r

sweep_expiredMatches(r) == r.status = statusFindingVendor /\ IsPast(r.exp)

\* ---- ranking -------------------------------------------------------------
\* Distance of each vendor_backends row to the pickup; the rows come back in
\* vendor id order and vendor 2 is the nearest.
distanceKm(v) == IF v = 1 THEN 2 ELSE IF v = 2 THEN 1 ELSE v

fetchVendorsOk == [i \in 1..NumVendors |-> i]

RECURSIVE InsertByDistance(_, _)
InsertByDistance(sorted, v) ==
  IF sorted = <<>> THEN <<v>>
  ELSE IF distanceKm(v) < distanceKm(Head(sorted)) THEN <<v>> \o sorted
  ELSE <<Head(sorted)>> \o InsertByDistance(Tail(sorted), v)

RECURSIVE SortByDistance(_)
SortByDistance(list) ==
  IF list = <<>> THEN <<>>
  ELSE InsertByDistance(SortByDistance(SubSeq(list, 1, Len(list) - 1)), list[Len(list)])

\* A filter that lets every vendor through.
IsNotSkippedAlways(skipRefs, v) == TRUE
IsNotSkipped(skipRefs, v) == v \notin skipRefs

RECURSIVE FilterSeq(_, _)
FilterSeq(list, skipRefs) ==
  IF list = <<>> THEN <<>>
  ELSE IF IsNotSkipped(skipRefs, Head(list))
       THEN <<Head(list)>> \o FilterSeq(Tail(list), skipRefs)
       ELSE FilterSeq(Tail(list), skipRefs)

rankedCandidates(vendors, skipRefs) == FilterSeq(SortByDistance(vendors), skipRefs)

\* ---- sessions, tasks, timers ---------------------------------------------
\* The session object of dispatchState; skipRefs (the exclusion set the
\* candidates were ranked with) and tried (the vendors an offer was reserved
\* for in this session) are history the code does not keep.
NewState(candidates, skipRefs) ==
  [candidates |-> candidates, index |-> 0, rejectedVendorRefs |-> {},
   skipRefs |-> skipRefs, tried |-> {}]

Task(pc, v, sid, skip) == [pc |-> pc, v |-> v, sid |-> sid, skip |-> skip]

\* What a step answers to its caller or does to the outside: op names the
\* route or the call, v the vendor, code the HTTP status, hit whether the
\* store call matched a row, sid the session the step worked on.
NoEvent == [op |-> "none", v |-> NoVendor, code |-> 0, hit |-> FALSE, sid |-> NoSid]
Event(op, v, code, hit) == [op |-> op, v |-> v, code |-> code, hit |-> hit, sid |-> NoSid]
SessionEvent(op, v, hit, sid) == [op |-> op, v |-> v, code |-> 0, hit |-> hit, sid |-> sid]

NumTasks == BagCardinality(tasks)

\* A clearTimeout that leaves the timer armed.
clearTimeoutKeeps(tm, sid) == tm
clearTimeout(tm, sid) == IF sid = NoSid THEN tm ELSE {x \in tm : x.sid # sid}
\* A timer that fires at the deadline of the offer or before it.
setTimeoutEarly(tm, sid, v) == clearTimeout(tm, sid) \cup {[sid |-> sid, v |-> v, r |-> OfferMinutes - 1]}
setTimeout(tm, sid, v) == clearTimeout(tm, sid) \cup {[sid |-> sid, v |-> v, r |-> TimerDelay]}

Referenced(m, tk) ==
  ((IF m = NoSid THEN {} ELSE {m}) \cup {t.sid : t \in BagToSet(tk)}) \ {NoSid}

\* Commits the in-memory part of a step: heap h, map entry m, suspended
\* handlers tk and armed timers tm.  Session objects that neither the map nor
\* a suspended handler references are dropped (garbage); a timer of such an
\* object stays armed, but nobody can clear it any more.
Commit(h, m, tk, tm) ==
  /\ heap' = [s \in (DOMAIN h) \cap Referenced(m, tk) |-> h[s]]
  /\ dispatchState' = m
  /\ tasks' = tk
  /\ timers' = {[x EXCEPT !.sid = IF @ \in Referenced(m, tk) THEN @ ELSE NoSid] : x \in tm}

Resume(t, next) == (tasks (-) SetToBag({t})) (+) SetToBag(next)
Spawn(next) == tasks (+) SetToBag(next)

currentCandidate(s) ==
  IF s.index < Len(s.candidates) THEN s.candidates[s.index + 1] ELSE NoVendor

\* Head of the while loop of tryOfferNext: candidates in rejectedVendorRefs are
\* stepped over (index += 1).
SkipRejectedIndex(s) ==
  IF s.index >= Len(s.candidates) THEN s.index
  ELSE CHOOSE j \in s.index..Len(s.candidates) :
         /\ (j = Len(s.candidates) \/ s.candidates[j + 1] \notin s.rejectedVendorRefs)
         /\ \A k \in s.index..(j - 1) : s.candidates[k + 1] \in s.rejectedVendorRefs

\* The loop of tryOfferNext from its head to the next await, on session sid:
\* the resulting heap and the suspended task.
LoopHead(h, sid) ==
  LET j == SkipRejectedIndex(h[sid])
      h2 == [h EXCEPT ![sid].index = j]
  IN [heap |-> h2,
      next |-> IF j < Len(h[sid].candidates)
               THEN {Task("clearExpired", h[sid].candidates[j + 1], sid, {})}
               ELSE {Task("giveUp", NoVendor, sid, {})}]

\* tryOfferNext(pickupId) up to its first await.
tryOfferNext(h, m) ==
  IF m = NoSid THEN [heap |-> h, next |-> {}] ELSE LoopHead(h, m)

\* A handler that forgets state.index += 1: the loop stays on its candidate.
AdvanceStays(h, sid) == h
\* state.index += 1.  An index at or past the end of the candidate list only
\* ever fails the loop test, so it is kept at the length of the list.
Advance(h, sid) ==
  [h EXCEPT ![sid].index = IF @ < Len(h[sid].candidates) THEN @ + 1 ELSE @]

Init ==
  /\ row = Row(statusRequested, NoVendor, NoExp)
  /\ rejections = {}
  /\ dispatchState = NoSid
  /\ heap = [s \in {} |-> NewState(<<>>, {})]
  /\ timers = {}
  /\ tasks = SetToBag({Task("fetchPickup", NoVendor, NoSid, {})})
  /\ ev = NoEvent
  /\ confirms = 0
  /\ requests = 0

\* ---- dispatchPickup ------------------------------------------------------
\* await fetchPickup; the not-found, terminal and active-offer exits.
dispatchPickup_fetchPickup(t) ==
  /\ ev = NoEvent
  /\ t.pc = "fetchPickup"
  /\ LET ignored == row = NoPickup \/ isTerminalStatus(row.status) \/ hasActiveOffer(row)
     IN Commit(heap, dispatchState,
               Resume(t, IF ignored THEN {} ELSE {Task("beginFinding", NoVendor, NoSid, t.skip)}),
               timers)
  /\ ev' = NoEvent
  /\ UNCHANGED <<row, rejections, confirms, requests>>

\* await update status = FINDING_VENDOR where status in (REQUESTED,
\* NO_VENDOR_AVAILABLE, FINDING_VENDOR), then await fetchVendors: the rows of
\* vendor_backends, or [] when the query fails.  The vendor query reads nothing
\* that another handler writes, so it shares the step of the update.
dispatchPickup_beginFinding(t) ==
  /\ ev = NoEvent
  /\ t.pc = "beginFinding"
  /\ row' = begin_finding(row)
  /\ \E ok \in BOOLEAN :
       Commit(heap, dispatchState,
              Resume(t, IF ok THEN {Task("fetchRejected", NoVendor, NoSid, t.skip)}
                              ELSE {Task("giveUpNoVendors", NoVendor, NoSid, {})}),
              timers)
  /\ ev' = NoEvent
  /\ UNCHANGED <<rejections, confirms, requests>>

\* await update status = NO_VENDOR_AVAILABLE where id = pickupId
dispatchPickup_giveUpNoVendors(t) ==
  /\ ev = NoEvent
  /\ t.pc = "giveUpNoVendors"
  /\ row' = give_up_no_vendors(row)
  /\ Commit(heap, dispatchState, Resume(t, {}), timers)
  /\ ev' = NoEvent
  /\ UNCHANGED <<rejections, confirms, requests>>

\* await fetchRejectedVendorRefs (an empty set when the query fails), then the
\* ranking, the new session object and the call of tryOfferNext.
dispatchPickup_fetchRejected(t) ==
  /\ ev = NoEvent
  /\ t.pc = "fetchRejected"
  /\ \E readable \in BOOLEAN :
       LET persistedRejected == IF readable THEN rejections ELSE {}
           skipRefs == t.skip \cup persistedRejected
           candidates == rankedCandidates(fetchVendorsOk, skipRefs)
           sid == CHOOSE s \in Sids : s \notin DOMAIN heap /\ \A s2 \in Sids \ DOMAIN heap : s <= s2
           h1 == [s \in DOMAIN heap \cup {sid} |->
                    IF s = sid THEN NewState(candidates, skipRefs) ELSE heap[s]]
           go == tryOfferNext(h1, sid)
       IN /\ Commit(go.heap, sid, Resume(t, go.next), clearTimeout(timers, dispatchState))
          /\ ev' = SessionEvent("session", NoVendor, readable, sid)
  /\ UNCHANGED <<row, rejections, confirms, requests>>

\* ---- tryOfferNext --------------------------------------------------------
\* await clearExpiredOfferIfAny()
tryOfferNext_clearExpired(t) ==
  /\ ev = NoEvent
  /\ t.pc = "clearExpired"
  /\ row' = clearExpiredOfferIfAny(row)
  /\ Commit(heap, dispatchState, Resume(t, {Task("reserve", t.v, t.sid, {})}), timers)
  /\ ev' = NoEvent
  /\ UNCHANGED <<rejections, confirms, requests>>

\* await the reservation update; on a hit the handler goes on to fetchPickup
\* and sendOfferToVendor, on a miss it reloads the pickup.
tryOfferNext_reserve(t) ==
  /\ ev = NoEvent
  /\ t.pc = "reserve"
  /\ row' = reserve_offer(row, t.v)
  /\ IF reserve_offerMatches(row)
     THEN /\ Commit([heap EXCEPT ![t.sid].tried = @ \cup {t.v}], dispatchState,
                    Resume(t, {Task("sendOffer", t.v, t.sid, {})}), timers)
          /\ ev' = SessionEvent("reserve", t.v, TRUE, t.sid)
     ELSE /\ Commit(heap, dispatchState, Resume(t, {Task("reload", t.v, t.sid, {})}), timers)
          /\ ev' = NoEvent
  /\ UNCHANGED <<rejections, confirms, requests>>

\* await fetchPickup after a missed reservation.
tryOfferNext_reload(t) ==
  /\ ev = NoEvent
  /\ t.pc = "reload"
  /\ IF isTerminalStatus(row.status)
     THEN Commit(heap, NoSid, Resume(t, {}), clearTimeout(timers, t.sid))
     ELSE IF hasActiveOffer(row)
     THEN Commit(heap, dispatchState, Resume(t, {}), timers)
     ELSE LET go == LoopHead(Advance(heap, t.sid), t.sid)
          IN Commit(go.heap, dispatchState, Resume(t, go.next), timers)
  /\ ev' = NoEvent
  /\ UNCHANGED <<row, rejections, confirms, requests>>

\* await sendOfferToVendor: on success the timer is armed and the session is
\* put back into the map; on failure the catch block moves to the next candidate.
tryOfferNext_sendOffer(t) ==
  /\ ev = NoEvent
  /\ t.pc = "sendOffer"
  /\ \E ok \in BOOLEAN :
       /\ IF ok
          THEN Commit(heap, t.sid, Resume(t, {}), setTimeout(timers, t.sid, t.v))
          ELSE LET go == LoopHead(Advance(heap, t.sid), t.sid)
               IN Commit(go.heap, dispatchState, Resume(t, go.next), timers)
       /\ ev' = Event("offer", t.v, IF ok THEN 200 ELSE 500, ok)
  /\ UNCHANGED <<row, rejections, confirms, requests>>

\* Exhausted candidates: await the unconditional update, then dispatchState.delete.
tryOfferNext_giveUp(t) ==
  /\ ev = NoEvent
  /\ t.pc = "giveUp"
  /\ row' = give_up(row)
  /\ Commit(heap, NoSid, Resume(t, {}), timers)
  /\ ev' = NoEvent
  /\ UNCHANGED <<rejections, confirms, requests>>

\* ---- handleOfferTimeout --------------------------------------------------
\* The timer callback starts handleOfferTimeout(pickupId, vendor).
TimerFires ==
  /\ ev = NoEvent
  /\ NumTasks < MaxTasks
  /\ \E x \in timers :
       /\ x.r = 0
       /\ Commit(heap, dispatchState, Spawn({Task("timeoutRead", x.v, NoSid, {})}), timers \ {x})
  /\ ev' = NoEvent
  /\ UNCHANGED <<row, rejections, confirms, requests>>

\* await the select of the pickup; exits for terminal statuses and for a
\* deadline that is still in the future.
handleOfferTimeout_read(t) ==
  /\ ev = NoEvent
  /\ t.pc = "timeoutRead"
  /\ IF isTerminalStatus(row.status)
     THEN Commit(heap, NoSid, Resume(t, {}), timers)
     ELSE IF IsFuture(row.exp)
     THEN Commit(heap, dispatchState, Resume(t, {}), timers)
     ELSE Commit(heap, dispatchState,
                 Resume(t, {Task("timeoutClear", t.v, NoSid,
                                 IF row.avr # NoVendor THEN {row.avr} ELSE {})}),
                 timers)
  /\ ev' = NoEvent
  /\ UNCHANGED <<row, rejections, confirms, requests>>

\* await the clear of the expired offer of this vendor; then index += 1 and
\* tryOfferNext when a session exists, else dispatchPickup with the vendor read
\* from the row skipped.
handleOfferTimeout_clear(t) ==
  /\ ev = NoEvent
  /\ t.pc = "timeoutClear"
  /\ row' = clear_expired_offer(row, t.v)
  /\ IF dispatchState # NoSid
     THEN LET go == tryOfferNext(Advance(heap, dispatchState), dispatchState)
          IN Commit(go.heap, dispatchState, Resume(t, go.next), timers)
     ELSE Commit(heap, dispatchState, Resume(t, {Task("fetchPickup", NoVendor, NoSid, t.skip)}), timers)
  /\ ev' = NoEvent
  /\ UNCHANGED <<rejections, confirms, requests>>

\* ---- sweeper -------------------------------------------------------------
\* One interval tick of the sweeper: the select of expired offers and, for
\* the pickup it returns, the call of handleOfferTimeout with the row's vendor.
sweepExpiredOffersOnce ==
  /\ ev = NoEvent
  /\ NumTasks < MaxTasks
  /\ sweep_expiredMatches(row)
  /\ requests < MaxRequests
  /\ requests' = requests + 1
  /\ Commit(heap, dispatchState, Spawn({Task("timeoutRead", row.avr, NoSid, {})}), timers)
  /\ ev' = NoEvent
  /\ UNCHANGED <<row, rejections, confirms>>

\* ---- vendor callbacks ----------------------------------------------------
\* POST /api/vendor/accept -> confirmVendorAcceptance: one conditional update,
\* then the timer of the session in the map is cleared and the entry deleted.
confirmVendorAcceptance(v) ==
  /\ ev = NoEvent
  /\ row' = confirm_assignment(row, v)
  /\ IF confirm_assignmentMatches(row, v)
     THEN /\ Commit(heap, NoSid, tasks, clearTimeout(timers, dispatchState))
          /\ ev' = Event("accept", v, 200, TRUE)
          /\ confirms' = IF confirms < 2 THEN confirms + 1 ELSE confirms
     ELSE /\ UNCHANGED <<heap, dispatchState, tasks, timers, confirms, requests>>
          /\ ev' = Event("accept", v, 409, FALSE)
  /\ UNCHANGED <<rejections, requests>>

\* POST /api/vendor/reject -> handleVendorRejection: await recordVendorRejection
\* (best effort: a failed upsert is only logged).
handleVendorRejection_record(v) ==
  /\ ev = NoEvent
  /\ NumTasks < MaxTasks
  /\ requests < MaxRequests
  /\ requests' = requests + 1
  /\ \E recorded \in BOOLEAN :
       rejections' = IF recorded THEN rejections \cup {v} ELSE rejections
  /\ Commit(heap, dispatchState, Spawn({Task("rejectClear", v, NoSid, {})}), timers)
  /\ ev' = NoEvent
  /\ UNCHANGED <<row, confirms>>

\* await the conditional clear of this vendor's offer, then the in-memory part.
handleVendorRejection_clear(t) ==
  /\ ev = NoEvent
  /\ t.pc = "rejectClear"
  /\ row' = reject_offer(row, t.v)
  /\ IF ~reject_offerMatches(row, t.v)
     THEN Commit(heap, dispatchState, Resume(t, {}), timers)
     ELSE IF dispatchState = NoSid
     THEN Commit(heap, dispatchState, Resume(t, {Task("fetchPickup", NoVendor, NoSid, {t.v})}), timers)
     ELSE LET h1 == [heap EXCEPT ![dispatchState].rejectedVendorRefs = @ \cup {t.v}]
          IN IF currentCandidate(h1[dispatchState]) # t.v
             THEN LET go == tryOfferNext(h1, dispatchState)
                  IN Commit(go.heap, dispatchState, Resume(t, go.next), timers)
             ELSE LET go == tryOfferNext(Advance(h1, dispatchState), dispatchState)
                  IN Commit(go.heap, dispatchState, Resume(t, go.next),
                            clearTimeout(timers, dispatchState))
  /\ ev' = Event("reject", t.v, 200, reject_offerMatches(row, t.v))
  /\ UNCHANGED <<rejections, confirms, requests>>

\* POST /api/vendor/on-the-way
onTheWay(v) ==
  /\ ev = NoEvent
  /\ row' = set_on_the_way(row, v)
  /\ ev' = Event("onTheWay", v, IF set_on_the_wayMatches(row, v) THEN 200 ELSE 409,
                 set_on_the_wayMatches(row, v))
  /\ UNCHANGED <<rejections, dispatchState, heap, timers, tasks, confirms, requests>>

\* POST /api/vendor/pickup-done
pickupDone(v) ==
  /\ ev = NoEvent
  /\ row' = complete(row, v)
  /\ IF completeMatches(row, v)
     THEN /\ Commit(heap, NoSid, tasks, clearTimeout(timers, dispatchState))
          /\ ev' = Event("pickupDone", v, 200, TRUE)
     ELSE /\ UNCHANGED <<heap, dispatchState, tasks, timers>>
          /\ ev' = Event("pickupDone", v, 409, FALSE)
  /\ UNCHANGED <<rejections, confirms, requests>>

\* ---- customer routes -----------------------------------------------------
\* POST /api/pickups/:id/cancel: the select of the owned row and the status check.
cancel_check ==
  /\ ev = NoEvent
  /\ NumTasks < MaxTasks
  /\ IF row.status = statusCompleted
     THEN /\ UNCHANGED <<heap, dispatchState, tasks, timers, requests>>
          /\ ev' = Event("cancel", NoVendor, 409, FALSE)
     ELSE /\ requests < MaxRequests
          /\ requests' = requests + 1
          /\ Commit(heap, dispatchState, Spawn({Task("cancelRpc", NoVendor, NoSid, {})}), timers)
          /\ ev' = NoEvent
  /\ UNCHANGED <<row, rejections, confirms>>

\* await rpc cancel_pickup, then the timer and the map entry are dropped.
cancel_rpc(t) ==
  /\ ev = NoEvent
  /\ t.pc = "cancelRpc"
  /\ row' = cancel_pickup(row)
  /\ Commit(heap, NoSid, Resume(t, {}), clearTimeout(timers, dispatchState))
  /\ ev' = Event("cancel", NoVendor, 200, cancel_pickupMatches(row))
  /\ UNCHANGED <<rejections, confirms, requests>>

\* POST /api/pickups/:id/find-vendor: the select of the owned row and the status check.
findVendor_check ==
  /\ ev = NoEvent
  /\ NumTasks < MaxTasks
  /\ IF isTerminalStatus(row.status)
     THEN /\ UNCHANGED <<heap, dispatchState, tasks, timers, requests, confirms>>
          /\ ev' = Event("findVendor", NoVendor, 409, FALSE)
     ELSE /\ requests < MaxRequests
          /\ requests' = requests + 1
          /\ confirms' = 0
          /\ Commit(heap, dispatchState, Spawn({Task("retryRpc", NoVendor, NoSid, {})}), timers)
          /\ ev' = NoEvent
  /\ UNCHANGED <<row, rejections>>

\* await rpc find_vendor_again, then the timer and the map entry are dropped
\* and dispatchPickup(id) is started.
findVendor_rpc(t) ==
  /\ ev = NoEvent
  /\ t.pc = "retryRpc"
  /\ row' = find_vendor_again(row)
  /\ Commit(heap, NoSid, Resume(t, {Task("fetchPickup", NoVendor, NoSid, {})}),
            clearTimeout(timers, dispatchState))
  /\ ev' = Event("findVendor", NoVendor, 200, find_vendor_againMatches(row))
  /\ confirms' = 0
  /\ UNCHANGED <<rejections, requests>>

\* ---- environment ---------------------------------------------------------
TickExp(e) == IF e = NoExp \/ e = -1 THEN e ELSE e - 1
TickTimer(x) == [x EXCEPT !.r = IF @ = 0 THEN 0 ELSE @ - 1]

\* One unit of time passes.  A timer that is due fires before the next unit
\* of time is over, so time does not pass while a timer is due.
Tick ==
  /\ ev = NoEvent
  /\ row.exp \notin {NoExp, -1} \/ row.cancelled_at = 0 \/ \E x \in timers : x.r > 0
  /\ \A x \in timers : x.r > 0
  /\ row' = [row EXCEPT !.exp = TickExp(@), !.cancelled_at = TickExp(@)]
  /\ timers' = {TickTimer(x) : x \in timers}
  /\ ev' = NoEvent
  /\ UNCHANGED <<rejections, dispatchState, heap, tasks, confirms, requests>>

\* The process dies and is started again: the map, the session objects, the
\* timers and every suspended handler are lost; the store is kept.
Crash ==
  /\ ev = NoEvent
  /\ NumTasks > 0 \/ dispatchState # NoSid \/ timers # {}
  /\ requests < MaxRequests
  /\ requests' = requests + 1
  /\ Commit(heap, NoSid, EmptyBag, {})
  /\ ev' = Event("crash", NoVendor, 0, FALSE)
  /\ UNCHANGED <<row, rejections, confirms>>

\* The answer or offer written by the last step leaves the process; every
\* other action waits for that (ev = NoEvent), so that ev always is what the
\* last step of the program wrote.
Delivered ==
  /\ ev # NoEvent
  /\ ev' = NoEvent
  /\ UNCHANGED <<row, rejections, dispatchState, heap, timers, tasks, confirms, requests>>

\* A suspended handler of the dispatcher resumes.
EngineStep ==
  \/ \E t \in BagToSet(tasks) : dispatchPickup_fetchPickup(t)
  \/ \E t \in BagToSet(tasks) : dispatchPickup_beginFinding(t)
  \/ \E t \in BagToSet(tasks) : dispatchPickup_giveUpNoVendors(t)
  \/ \E t \in BagToSet(tasks) : dispatchPickup_fetchRejected(t)
  \/ \E t \in BagToSet(tasks) : tryOfferNext_clearExpired(t)
  \/ \E t \in BagToSet(tasks) : tryOfferNext_reserve(t)
  \/ \E t \in BagToSet(tasks) : tryOfferNext_reload(t)
  \/ \E t \in BagToSet(tasks) : tryOfferNext_sendOffer(t)
  \/ \E t \in BagToSet(tasks) : tryOfferNext_giveUp(t)
  \/ \E t \in BagToSet(tasks) : handleOfferTimeout_read(t)
  \/ \E t \in BagToSet(tasks) : handleOfferTimeout_clear(t)
  \/ \E t \in BagToSet(tasks) : handleVendorRejection_clear(t)

\* A suspended handler of a customer route resumes.
CustomerStep ==
  \/ \E t \in BagToSet(tasks) : cancel_rpc(t)
  \/ \E t \in BagToSet(tasks) : findVendor_rpc(t)

Step ==
  \/ EngineStep
  \/ CustomerStep
  \/ TimerFires
  \/ sweepExpiredOffersOnce
  \/ \E v \in Vendors : confirmVendorAcceptance(v)
  \/ \E v \in Vendors : handleVendorRejection_record(v)
  \/ \E v \in Vendors : onTheWay(v)
  \/ \E v \in Vendors : pickupDone(v)
  \/ cancel_check
  \/ findVendor_check
  \/ Tick
  \/ Crash

Next ==
  \/ Step
  \/ Delivered

Spec == Init /\ [][Next]_vars

\* ---- recovery after a crash ----------------------------------------------
\* The dispatcher left to itself: no customer request comes in, vendors only
\* accept an offer they hold or reject.  Suspended handlers resume, due timers
\* fire, the sweeper's interval keeps ticking, time passes and answers leave.
RecoveryStep ==
  \/ EngineStep
  \/ TimerFires
  \/ sweepExpiredOffersOnce
  \/ \E v \in Vendors : confirm_assignmentMatches(row, v) /\ confirmVendorAcceptance(v)
  \/ \E v \in Vendors : handleVendorRejection_record(v)
  \/ Tick
  \/ Crash

NextRecovery ==
  \/ RecoveryStep
  \/ Delivered

SpecRecovery ==
  /\ Init
  /\ [][NextRecovery]_vars
  /\ WF_vars(Delivered)
  /\ WF_vars(EngineStep)
  /\ WF_vars(TimerFires)
  /\ WF_vars(sweepExpiredOffersOnce)
  /\ WF_vars(Tick)

\* ---- the dispatcher when nobody answers ----------------------------------
\* No vendor answers an offer, the customer sends nothing and the process
\* stays up: the suspended handlers of dispatchPickup, tryOfferNext and
\* handleOfferTimeout resume, due timers fire, the sweeper's interval keeps
\* ticking and time passes.
QuietEngineStep ==
  \/ \E t \in BagToSet(tasks) : dispatchPickup_fetchPickup(t)
  \/ \E t \in BagToSet(tasks) : dispatchPickup_beginFinding(t)
  \/ \E t \in BagToSet(tasks) : dispatchPickup_giveUpNoVendors(t)
  \/ \E t \in BagToSet(tasks) : dispatchPickup_fetchRejected(t)
  \/ \E t \in BagToSet(tasks) : tryOfferNext_clearExpired(t)
  \/ \E t \in BagToSet(tasks) : tryOfferNext_reserve(t)
  \/ \E t \in BagToSet(tasks) : tryOfferNext_reload(t)
  \/ \E t \in BagToSet(tasks) : tryOfferNext_sendOffer(t)
  \/ \E t \in BagToSet(tasks) : tryOfferNext_giveUp(t)
  \/ \E t \in BagToSet(tasks) : handleOfferTimeout_read(t)
  \/ \E t \in BagToSet(tasks) : handleOfferTimeout_clear(t)

NextQuiet ==
  \/ QuietEngineStep
  \/ TimerFires
  \/ sweepExpiredOffersOnce
  \/ Tick
  \/ Delivered

SpecQuiet ==
  /\ Init
  /\ [][NextQuiet]_vars
  /\ WF_vars(Delivered)
  /\ WF_vars(QuietEngineStep)
  /\ WF_vars(TimerFires)
  /\ WF_vars(sweepExpiredOffersOnce)
  /\ WF_vars(Tick)

\* ---- the vendor callbacks with their signature check ----------------------
\* A callback request carries a raw body and an x-scrapco-signature header.
\* The raw body is identified with the vendor id it names; the digest is a
\* function of key and body that differs for the bodies and keys of the model.
VENDOR_WEBHOOK_SECRET == 1     \* process.env.VENDOR_WEBHOOK_SECRET
OtherSecret == 2               \* a key that is not the shared secret
NoSig == 0                     \* no x-scrapco-signature header
NoRaw == 0                     \* req.rawBody undefined
DigestModulus == 7

hmacSha256Hex(secret, rawBody) == ((3 * secret + 5 * rawBody) % DigestModulus) + 1

safeEqual(a, b) == a = b

\* A check that only wants the header to be there.
verifyVendorSignatureAnyHeader(got, raw) == got # NoSig
verifyVendorSignature(got, raw) ==
  /\ got # NoSig
  /\ raw # NoRaw
  /\ safeEqual(got, hmacSha256Hex(VENDOR_WEBHOOK_SECRET, raw))

RawBodies == Vendors \cup {NoRaw}
\* No header, the digest of one of the bodies under the shared secret (the
\* right header for that body, a replayed one for another body), or a digest
\* under another key.
Signatures ==
  {NoSig} \cup {hmacSha256Hex(VENDOR_WEBHOOK_SECRET, b) : b \in Vendors}
          \cup {hmacSha256Hex(OtherSecret, 1)}

\* if (!sig.ok) return res.status(401)
Unauthorized(op) ==
  /\ ev = NoEvent
  /\ ev' = Event(op, NoVendor, 401, FALSE)
  /\ UNCHANGED <<row, rejections, dispatchState, heap, timers, tasks, confirms, requests>>

postAccept(got, raw) ==
  IF verifyVendorSignature(got, raw) THEN confirmVendorAcceptance(raw) ELSE Unauthorized("accept")

postReject(got, raw) ==
  IF verifyVendorSignature(got, raw) THEN handleVendorRejection_record(raw) ELSE Unauthorized("reject")

postOnTheWay(got, raw) ==
  IF verifyVendorSignature(got, raw) THEN onTheWay(raw) ELSE Unauthorized("onTheWay")

postPickupDone(got, raw) ==
  IF verifyVendorSignature(got, raw) THEN pickupDone(raw) ELSE Unauthorized("pickupDone")

\* The vendor side of the backend: callbacks come in with any header and
\* body, suspended handlers resume, timers fire and time passes; the customer
\* sends nothing and the sweeper's interval is left out.
NextSigned ==
  \/ EngineStep
  \/ TimerFires
  \/ \E got \in Signatures, raw \in RawBodies : postAccept(got, raw)
  \/ \E got \in Signatures, raw \in RawBodies : postReject(got, raw)
  \/ \E got \in Signatures, raw \in RawBodies : postOnTheWay(got, raw)
  \/ \E got \in Signatures, raw \in RawBodies : postPickupDone(got, raw)
  \/ Tick
  \/ Delivered

SpecSigned == Init /\ [][NextSigned]_vars

\* ---- the begin_finding update on its own ----------------------------------
\* The rows the update can meet: every status with the columns a row of that
\* status can hold.
RowInputs ==
  {r \in [status : Statuses, avr : Vendors \cup {NoVendor},
          exp : {NoExp} \cup (-1..OfferMinutes), cancelled_at : {NoExp, 0, -1}] :
     /\ r.exp # NoExp => r.avr # NoVendor /\ r.status \in {statusFindingVendor, statusNoVendorAvailable}
     /\ r.status \in {statusAssigned, statusOnTheWay, statusCompleted} => r.avr # NoVendor
     /\ r.status = statusRequested => r.avr = NoVendor /\ r.cancelled_at = NoExp
     /\ r.status = statusCancelled => r.avr = NoVendor /\ r.cancelled_at # NoExp}

InitBeginFinding ==
  /\ row \in RowInputs
  /\ rejections = {}
  /\ dispatchState = NoSid
  /\ heap = [s \in {} |-> NewState(<<>>, {})]
  /\ timers = {}
  /\ tasks = EmptyBag
  /\ ev = NoEvent
  /\ confirms = 0
  /\ requests = 0

\* The update of dispatchPickup, applied to the row as it is.
apply_begin_finding ==
  /\ ev = NoEvent
  /\ row' = begin_finding(row)
  /\ ev' = Event("begin_finding", NoVendor, 0, begin_findingMatches(row))
  /\ UNCHANGED <<rejections, dispatchState, heap, timers, tasks, confirms, requests>>

NextBeginFinding ==
  \/ apply_begin_finding
  \/ Delivered

SpecBeginFinding == InitBeginFinding /\ [][NextBeginFinding]_vars

\* ---- after a restart during an offer --------------------------------------
\* The process has been started again while the row holds an offer: the offer
\* and the rejection log are in the store, the map is empty, no timer is armed
\* and no handler is running.  Nobody answers; the sweeper finds the offer
\* once it has expired.
InitRestart ==
  /\ \E v \in Vendors, e \in -1..OfferMinutes : row = Row(statusFindingVendor, v, e)
  /\ rejections \in SUBSET Vendors
  /\ dispatchState = NoSid
  /\ heap = [s \in {} |-> NewState(<<>>, {})]
  /\ timers = {}
  /\ tasks = EmptyBag
  /\ ev = NoEvent
  /\ confirms = 0
  /\ requests = 0

SpecRestart == InitRestart /\ [][NextQuiet]_vars

\* ---- one dispatch of a pickup in any state --------------------------------
\* dispatchPickup(id) is called for a pickup that is in any state a row can be
\* in, or that does not exist; no session, no timer, no other handler.  Nobody
\* answers the offers.
InitDispatch ==
  /\ row \in RowInputs \cup {NoPickup}
  /\ rejections \in SUBSET Vendors
  /\ dispatchState = NoSid
  /\ heap = [s \in {} |-> NewState(<<>>, {})]
  /\ timers = {}
  /\ tasks = SetToBag({Task("fetchPickup", NoVendor, NoSid, {})})
  /\ ev = NoEvent
  /\ confirms = 0
  /\ requests = 0

SpecDispatch == InitDispatch /\ [][NextQuiet]_vars

\* ---- the ranking of the vendor list on its own ----------------------------
\* Vendor rows carry a latitude or none; pickup and vendors lie on one
\* meridian, so that the great-circle distance is the difference of the
\* latitudes.
MaxRankVendors == 3
NoCoord == -1
Latitudes == {1, 2, 4}
PickupLatitudes == {1, 3}
\* Number.MAX_SAFE_INTEGER: larger than every distance.
MAX_SAFE_INTEGER == 1000

haversineDistanceKm(lat1, lat2) == IF lat1 >= lat2 THEN lat1 - lat2 ELSE lat2 - lat1

\* Number(v.last_latitude || v.latitude || v.lat || 0)
vendorLatitude(v) == IF v.latitude = NoCoord THEN 0 ELSE v.latitude

\* px != null && py != null ? haversineDistanceKm(px, py, vx, vy) : MAX_SAFE_INTEGER
rankedDistanceKm(px, v) ==
  IF px # NoCoord THEN haversineDistanceKm(px, vendorLatitude(v)) ELSE MAX_SAFE_INTEGER

\* Array.prototype.sort with the comparator a.distanceKm - b.distanceKm: a
\* stable sort, ascending.
RECURSIVE InsertRanked(_, _)
InsertRanked(sorted, r) ==
  IF sorted = <<>> THEN <<r>>
  ELSE IF r.distanceKm < Head(sorted).distanceKm THEN <<r>> \o sorted
  ELSE <<Head(sorted)>> \o InsertRanked(Tail(sorted), r)

RECURSIVE SortRanked(_)
SortRanked(list) ==
  IF list = <<>> THEN <<>>
  ELSE InsertRanked(SortRanked(SubSeq(list, 1, Len(list) - 1)), list[Len(list)])

\* vendors.map(...).sort(...).map((r) => r.vendor)
ranked(vendors, px) ==
  LET withDistance == [i \in 1..Len(vendors) |->
                         [vendor |-> vendors[i], distanceKm |-> rankedDistanceKm(px, vendors[i])]]
      sorted == SortRanked(withDistance)
  IN [i \in 1..Len(sorted) |-> sorted[i].vendor]

VendorLists ==
  UNION {{[i \in 1..n |-> [vendor_id |-> i, latitude |-> lats[i]]] :
            lats \in [1..n -> Latitudes \cup {NoCoord}]} : n \in 1..MaxRankVendors}

InitRank ==
  /\ row = Row(statusFindingVendor, NoVendor, NoExp)
  /\ rejections = {}
  /\ dispatchState = NoSid
  /\ heap = [s \in {} |-> NewState(<<>>, {})]
  /\ timers = {}
  /\ tasks = EmptyBag
  /\ ev = NoEvent
  /\ confirms = 0
  /\ requests = 0

\* The ranking step of dispatchPickup on a vendor list and a pickup position;
\* its log line candidates_ranked carries the result.
candidates_ranked ==
  /\ ev = NoEvent
  /\ \E vendors \in VendorLists, px \in PickupLatitudes \cup {NoCoord} :
       ev' = [op |-> "candidates_ranked", v |-> NoVendor, code |-> 0, hit |-> TRUE,
              sid |-> NoSid, vendors |-> vendors, pickup |-> px,
              candidates |-> ranked(vendors, px)]
  /\ UNCHANGED <<row, rejections, dispatchState, heap, timers, tasks, confirms, requests>>

NextRank ==
  \/ candidates_ranked
  \/ Delivered

SpecRank == InitRank /\ [][NextRank]_vars

\* ==== the offer URL check on its own ========================================
\* The inputs of sendOfferToVendor that decide whether the HTTP call is made:
\* NODE_ENV, and the scheme, host and path of the vendor's stored offer_url.
\* A host is the text between "//" and the path, so the IPv6 loopback address
\* is written "[::1]".
Environments == {"production", "development", "test"}

Schemes == {"http", "https", "ftp", "ws"}

UrlHosts == {"localhost", "LOCALHOST", "127.0.0.1", "[::1]", "vendor.example"}

UrlPaths == {"/", "/api/offer", "/hook"}

\* URL.hostname: the host in lower case; an IPv6 address keeps its brackets.
hostname(host) == IF host = "LOCALHOST" THEN "localhost" ELSE host

\* offerUrlOf: the URL re-serialised with the path forced to /api/offer.
offerUrlOf(scheme, host, path) ==
  [scheme |-> scheme, host |-> hostname(host), path |-> "/api/offer"]

\* String(url).includes('localhost') on the URL offerUrlOf returned: neither a
\* scheme nor the path /api/offer contains the text, only the host can.
includesLocalhost(url) == url.host = "localhost"

validateOfferUrl(url) ==
  IF url.scheme \notin {"http", "https"} THEN [ok |-> FALSE, reason |-> "not_http"]
  ELSE IF hostname(url.host) \in {"localhost", "127.0.0.1", "::1"}
       THEN [ok |-> FALSE, reason |-> "localhost"]
       ELSE [ok |-> TRUE, reason |-> "null"]

\* The gate at the head of sendOfferToVendor: TRUE when the function goes on to
\* the HTTP call, FALSE when it throws "Invalid offer_url".
offerUrlPermitted(env, url) ==
  LET urlCheck == validateOfferUrl(url)
  IN urlCheck.ok \/ (env # "production" /\ includesLocalhost(url))

\* fetch of node-fetch: a URL whose protocol is not http: or https: is
\* refused with a TypeError before any request is made.
fetchSupports(scheme) == scheme \in {"http", "https"}

InitUrl ==
  /\ row = Row(statusFindingVendor, NoVendor, NoExp)
  /\ rejections = {}
  /\ dispatchState = NoSid
  /\ heap = <<>>
  /\ timers = {}
  /\ tasks = EmptyBag
  /\ ev = NoEvent
  /\ confirms = 0
  /\ requests = 0

sendOfferToVendor_checkUrl ==
  /\ ev = NoEvent
  /\ \E env \in Environments, scheme \in Schemes, host \in UrlHosts, path \in UrlPaths :
       LET url == offerUrlOf(scheme, host, path)
       IN ev' = [op |-> "offer_url_checked", v |-> NoVendor, code |-> 0,
                 hit |-> TRUE, sid |-> NoSid,
                 env |-> env, scheme |-> scheme, host |-> host, path |-> path,
                 reason |-> validateOfferUrl(url).reason,
                 permitted |-> offerUrlPermitted(env, url),
                 sent |-> offerUrlPermitted(env, url) /\ fetchSupports(url.scheme)]
  /\ UNCHANGED <<row, rejections, dispatchState, heap, timers, tasks, confirms, requests>>

NextUrl ==
  \/ sendOfferToVendor_checkUrl
  \/ Delivered

SpecUrl == InitUrl /\ [][NextUrl]_vars

\* ==== an offer that has run out =============================================
\* The state two minutes after the first offer of a session was delivered:
\* the row still holds the offer of the first candidate, its deadline has
\* passed, the session stands on that candidate, the session's timer is due
\* and no handler is running.  From here the timer fires, the sweeper ticks,
\* vendors accept or reject, and the process may die.
InitExpired ==
  /\ \E c \in {<<1, 2>>, <<2, 1>>} :
       /\ row = Row(statusFindingVendor, c[1], -1)
       /\ heap = <<[NewState(c, {}) EXCEPT !.tried = {c[1]}]>>
       /\ timers = {[sid |-> 1, v |-> c[1], r |-> 0]}
  /\ rejections = {}
  /\ dispatchState = 1
  /\ tasks = EmptyBag
  /\ ev = NoEvent
  /\ confirms = 0
  /\ requests = 0

SpecExpired == InitExpired /\ [][NextRecovery]_vars

\* ==== the customer against the advance loop ================================
\* Dispatch of a new pickup with only the customer acting on it: retries and
\* cancels come in while the handlers of dispatchPickup and tryOfferNext are
\* suspended in their store calls and in the offer HTTP call.  No vendor
\* answers, the sweeper finds nothing to do and the process stays up.
NextCustomer ==
  \/ QuietEngineStep
  \/ CustomerStep
  \/ cancel_check
  \/ findVendor_check
  \/ TimerFires
  \/ Tick
  \/ Delivered

SpecCustomer == Init /\ [][NextCustomer]_vars

\* ==== the loops of a session within the two minutes of an offer =============
\* Dispatch of a new pickup while vendors reject: the handlers of
\* dispatchPickup, tryOfferNext and handleVendorRejection resume in any order.
\* No deadline passes, so no timer fires and the sweeper finds nothing; the
\* customer sends nothing and the process stays up.
LoopStep ==
  \/ \E t \in BagToSet(tasks) : dispatchPickup_fetchPickup(t)
  \/ \E t \in BagToSet(tasks) : dispatchPickup_beginFinding(t)
  \/ \E t \in BagToSet(tasks) : dispatchPickup_giveUpNoVendors(t)
  \/ \E t \in BagToSet(tasks) : dispatchPickup_fetchRejected(t)
  \/ \E t \in BagToSet(tasks) : tryOfferNext_clearExpired(t)
  \/ \E t \in BagToSet(tasks) : tryOfferNext_reserve(t)
  \/ \E t \in BagToSet(tasks) : tryOfferNext_reload(t)
  \/ \E t \in BagToSet(tasks) : tryOfferNext_sendOffer(t)
  \/ \E t \in BagToSet(tasks) : tryOfferNext_giveUp(t)
  \/ \E t \in BagToSet(tasks) : handleVendorRejection_clear(t)

NextLoops ==
  \/ LoopStep
  \/ \E v \in Vendors : handleVendorRejection_record(v)
  \/ Delivered

SpecLoops == Init /\ [][NextLoops]_vars

\* ==== properties ==========================================================

\* C1: COMPLETED and CANCELLED are absorbing: once the stored status is
\* COMPLETED or CANCELLED, no step changes it.
C1_TerminalAbsorbing ==
  [][row.status \in {statusCompleted, statusCancelled} => row'.status = row.status]_vars

\* C2: once the pickup is ASSIGNED to a vendor, the status only moves on to
\* ON_THE_WAY, COMPLETED or CANCELLED, the assigned vendor stays the same
\* unless the customer cancels, and no offer is reserved for the pickup.
C2_NoDispatchAfterAssigned ==
  [][row.status = statusAssigned =>
       /\ row'.status \in {statusAssigned, statusOnTheWay, statusCompleted, statusCancelled}
       /\ row'.status # statusCancelled => row'.avr = row.avr
       /\ ev'.op # "reserve"]_vars

\* C3: strict expiry.  An accept of vendor v moves the row to ASSIGNED (vendor
\* v, no deadline) and answers 200 exactly when the row is FINDING_VENDOR,
\* offered to v, with a deadline that is not in the past; in every other case
\* the row is left as it is and the answer is 409.
C3_StrictExpiry ==
  [][ev'.op = "accept" =>
       IF row.status = statusFindingVendor /\ row.avr = ev'.v /\ row.exp # NoExp /\ row.exp >= 0
       THEN row' = SetRow(row, statusAssigned, ev'.v, NoExp) /\ ev'.code = 200
       ELSE row' = row /\ ev'.code = 409]_vars

\* An accept that came after the deadline of the vendor's own offer was refused.
C3_Witness ==
  /\ ev.op = "accept" /\ ev.code = 409
  /\ row.status = statusFindingVendor /\ row.avr = ev.v /\ row.exp = -1

\* C4: between one customer retry and the next, confirm_assignment succeeds
\* at most once (confirms counts the successes since the last retry).
C4_AtMostOneAccept == confirms <= 1

\* C5: a row that is ASSIGNED or ON_THE_WAY has a vendor and no deadline.
C5_AssignedHasVendorNoDeadline ==
  row.status \in {statusAssigned, statusOnTheWay} => row.avr # NoVendor /\ row.exp = NoExp

\* The vendor of an accepted offer is on the way.
C5_Witness == row.status = statusOnTheWay /\ row.avr \in Vendors /\ confirms = 1

\* C6: a row that is FINDING_VENDOR has the vendor and the deadline both null
\* or both set.
C6_OfferFieldsPaired ==
  row.status = statusFindingVendor => (row.avr = NoVendor <=> row.exp = NoExp)

\* C6, second half: a reservation writes a deadline that is later than the
\* moment of the reservation.
C6_DeadlineAfterReservation ==
  [][ev'.op = "reserve" => row'.avr = ev'.v /\ row'.exp # NoExp /\ row'.exp > 0]_vars

\* C7: a reservation takes effect only on a FINDING_VENDOR row without an
\* assigned vendor; a vendor in the row is never replaced by another vendor and
\* its deadline is never moved.
C7_ReserveOnlyWhenFree ==
  [][/\ ev'.op = "reserve" => row.status = statusFindingVendor /\ row.avr = NoVendor
     /\ row.avr # NoVendor => row'.avr \in {row.avr, NoVendor}
     /\ row.avr # NoVendor /\ row'.avr = row.avr => row'.exp \in {row.exp, TickExp(row.exp), NoExp}]_vars

\* The second candidate is reserved after the offer to the first one was cleared.
C7_Witness ==
  /\ ev.op = "reserve" /\ row.avr = ev.v
  /\ \E s \in DOMAIN heap : Cardinality(heap[s].tried) = 2

\* C8: in every session the vendors an offer was reserved for form a prefix of
\* the session's candidate list: no candidate is offered the pickup while an
\* earlier candidate of the same session has not been.
C8_OffersFormPrefix ==
  \A s \in DOMAIN heap :
    \A j \in 1..Len(heap[s].candidates) :
      heap[s].candidates[j] \in heap[s].tried =>
        \A i \in 1..(j - 1) : heap[s].candidates[i] \in heap[s].tried

\* C9, within a session: a vendor whose rejection the session has taken is
\* never reserved again by that session.
C9_NoReserveAfterReject ==
  ev.op = "reserve" => ev.v \notin heap[ev.sid].rejectedVendorRefs

\* C9, across sessions: a session that is created while the rejection log can
\* be read has no vendor of the log among its candidates.
C9_PersistedRejectionExcluded ==
  [][ev'.op = "session" /\ ev'.hit =>
       \A j \in 1..Len(heap'[ev'.sid].candidates) :
         heap'[ev'.sid].candidates[j] \notin rejections]_vars

\* C10: when the process crashes while the pickup is FINDING_VENDOR, the
\* pickup eventually leaves FINDING_VENDOR for ASSIGNED, NO_VENDOR_AVAILABLE
\* or CANCELLED without a customer request (or the run reaches the bound on
\* requests, crashes and sweeper hits).
C10_RecoversAfterCrash ==
  [](ev.op = "crash" /\ row.status = statusFindingVendor /\ requests < MaxRequests
       => <>(\/ row.status \in {statusAssigned, statusNoVendorAvailable, statusCancelled}
             \/ requests = MaxRequests))

\* C11: when no vendor answers, the customer does nothing and the process
\* stays up, the dispatched pickup eventually is NO_VENDOR_AVAILABLE.
C11_EventuallyNoVendor == <>(row.status = statusNoVendorAvailable)

\* Both candidates of a session were offered the pickup, both offers timed out
\* without a sweeper hit, and the engine is past the last candidate.
C11_Witness ==
  /\ requests = 0
  /\ row = Row(statusFindingVendor, NoVendor, NoExp)
  /\ \E t \in BagToSet(tasks) : t.pc = "giveUp" /\ heap[t.sid].tried = Vendors

\* C12: when sendOfferToVendor fails for the vendor whose offer is in the row,
\* the step that handles the failure leaves the row without an offer
\* (assigned_vendor_ref and assignment_expires_at null).
C12_FailedSendClearsOffer ==
  [][/\ ev'.op = "offer" /\ ~ev'.hit
     /\ row.status = statusFindingVendor /\ row.avr = ev'.v
     => row'.avr = NoVendor /\ row'.exp = NoExp]_vars

\* C13: a cancel that is answered found the row either COMPLETED, and then
\* the answer is 409 and the row is left as it is, or in another status, and
\* then the row becomes CANCELLED without vendor and deadline and the answer
\* is 200.
C13_CancelUnlessCompleted ==
  [][ev'.op = "cancel" =>
       IF row.status = statusCompleted
       THEN ev'.code = 409 /\ row' = row
       ELSE /\ ev'.code = 200
            /\ row' = [SetRow(row, statusCancelled, NoVendor, NoExp) EXCEPT !.cancelled_at = 0]]_vars

\* C14: a cancel of a pickup that is CANCELLED already changes no column of
\* the row (cancelled_at included), no session object, no map entry and no
\* timer.
C14_SecondCancelChangesNothing ==
  [][ev'.op = "cancel" /\ row.status = statusCancelled =>
       row' = row /\ dispatchState' = dispatchState /\ heap' = heap /\ timers' = timers]_vars

\* C15: a find-vendor that is answered found the row either ASSIGNED,
\* ON_THE_WAY, CANCELLED or COMPLETED, and then the answer is 409 and the row is
\* left as it is, or in another status, and then the row becomes FINDING_VENDOR
\* without vendor and deadline, no timer stays armed, the map entry is gone,
\* dispatchPickup is started and the answer is 200.
C15_FindVendorUnlessTerminal ==
  [][ev'.op = "findVendor" =>
       IF isTerminalStatus(row.status)
       THEN ev'.code = 409 /\ row' = row
       ELSE /\ ev'.code = 200
            /\ row' = [SetRow(row, statusFindingVendor, NoVendor, NoExp) EXCEPT !.cancelled_at = NoExp]
            /\ timers' = {}
            /\ dispatchState' = NoSid
            /\ \E t \in BagToSet(tasks') : t.pc = "fetchPickup" /\ t.skip = {}]_vars

\* C16: when a dispatchPickup that was started loads the pickup and finds it
\* FINDING_VENDOR with an offer whose deadline is in the future, the handler
\* ends there: the row, the session objects, the map entry and the timers stay
\* as they are, no other handler is started and nothing is sent.
C16_DispatchDuringOfferIsNoOp ==
  [][\A t \in BagToSet(tasks) :
       /\ t.pc = "fetchPickup"
       /\ row.status = statusFindingVendor /\ row.avr # NoVendor /\ row.exp # NoExp /\ row.exp > 0
       /\ CopiesIn(t, tasks') < CopiesIn(t, tasks)
       /\ ev'.op # "crash"
       => /\ tasks' = tasks (-) SetToBag({t})
          /\ row' = row /\ heap' = heap /\ dispatchState' = dispatchState /\ timers' = timers
          /\ rejections' = rejections /\ ev' = NoEvent]_vars

\* A dispatchPickup is about to load the pickup while an offer with a session
\* and an armed timer is out.
C16_Witness ==
  /\ row.status = statusFindingVendor /\ row.avr # NoVendor /\ row.exp # NoExp /\ row.exp > 0
  /\ dispatchState # NoSid /\ timers # {}
  /\ \E t \in BagToSet(tasks) : t.pc = "fetchPickup"

\* C17: on-the-way and pickup-done change the row exactly when the calling
\* vendor is the row's assigned vendor and the status is ASSIGNED or
\* ON_THE_WAY, and answer 200 then; every other call is answered 409 and leaves
\* the row as it is.  No step moves the row to ON_THE_WAY or COMPLETED from
\* another status than ASSIGNED or ON_THE_WAY, or on the call of another vendor.
C17_OnlyAssignedVendorProgresses ==
  [][/\ ev'.op \in {"onTheWay", "pickupDone"} =>
          IF row.avr = ev'.v /\ row.status \in {statusAssigned, statusOnTheWay}
          THEN /\ ev'.code = 200
               /\ row' = [row EXCEPT !.status = IF ev'.op = "onTheWay" THEN statusOnTheWay
                                                                        ELSE statusCompleted]
          ELSE ev'.code = 409 /\ row' = row
     /\ row'.status \in {statusOnTheWay, statusCompleted} /\ row'.status # row.status =>
          /\ row.status \in {statusAssigned, statusOnTheWay}
          /\ ev'.op \in {"onTheWay", "pickupDone"} /\ ev'.v = row.avr
          /\ row'.avr = row.avr]_vars

\* The vendor that holds the offer of a FINDING_VENDOR pickup called pickup-done
\* and was refused.
C17_Witness ==
  /\ ev.op = "pickupDone" /\ ev.code = 409
  /\ row.status = statusFindingVendor /\ row.avr = ev.v /\ row.exp # NoExp /\ row.exp > 0

\* C18: a vendor callback (accept, reject, on-the-way, pickup-done) is answered
\* 200 when its conditional update matched the row and 409 when it matched no
\* row; in the second case the row is left as it is.
C18_LostRaceAnswers409 ==
  [][ev'.op \in {"accept", "reject", "onTheWay", "pickupDone"} =>
       /\ ev'.code = IF ev'.hit THEN 200 ELSE 409
       /\ ~ev'.hit => row' = row]_vars

\* C19: a vendor callback whose signature header is missing, or is not the
\* digest of its raw body under the shared secret, is answered 401 and changes
\* neither the row, nor the rejection log, nor the session objects, the map
\* entry, the timers or the suspended handlers: the state after it is the
\* state before it.
C19_UnsignedCallbackChangesNothing ==
  [][\A got \in Signatures, raw \in RawBodies :
       /\ got = NoSig \/ raw = NoRaw \/ got # hmacSha256Hex(VENDOR_WEBHOOK_SECRET, raw)
       /\ \/ postAccept(got, raw) \/ postReject(got, raw)
          \/ postOnTheWay(got, raw) \/ postPickupDone(got, raw)
       => /\ ev'.code = 401
          /\ UNCHANGED <<row, rejections, dispatchState, heap, timers, tasks>>]_vars

\* An accept for the vendor that holds a valid offer was refused for its
\* signature; the offer is still in the row.
C19_Witness ==
  /\ ev.op = "accept" /\ ev.code = 401
  /\ row.status = statusFindingVendor /\ row.avr # NoVendor /\ row.exp # NoExp /\ row.exp >= 0
  /\ timers # {}

\* C20: begin_finding sets status to FINDING_VENDOR, and nothing else, when
\* the status is REQUESTED, NO_VENDOR_AVAILABLE or FINDING_VENDOR, and leaves
\* the row as it is for every other status; applying it to its own result
\* changes nothing.
C20_BeginFindingIdempotent ==
  [][ev'.op = "begin_finding" =>
       /\ row' = IF row.status \in {statusRequested, statusNoVendorAvailable, statusFindingVendor}
                 THEN [row EXCEPT !.status = statusFindingVendor]
                 ELSE row
       /\ begin_finding(row') = row']_vars

\* The update moved a NO_VENDOR_AVAILABLE row that still names a vendor to
\* FINDING_VENDOR.
C20_Witness ==
  /\ ev.op = "begin_finding" /\ ev.hit
  /\ row.status = statusFindingVendor /\ row.avr # NoVendor /\ row.exp = NoExp

\* C21: a timeout handler that finds no session in the map starts
\* dispatchPickup with the vendor it read from the row as skipVendorRefs; a
\* session that is created while the rejection log can be read has as
\* candidates exactly the vendors that are neither in skipVendorRefs nor in the
\* log, nearest first; and no session reserves an offer for a vendor of its
\* exclusion set.
C21_RestartSessionExcludes ==
  [][/\ \A t \in BagToSet(tasks) :
          /\ t.pc = "timeoutRead" /\ CopiesIn(t, tasks') < CopiesIn(t, tasks)
          /\ row.status = statusFindingVendor /\ row.avr = t.v /\ row.exp = -1
          => \E u \in BagToSet(tasks') : u.pc = "timeoutClear" /\ u.v = t.v /\ u.skip = {t.v}
     /\ \A t \in BagToSet(tasks) :
          /\ t.pc = "timeoutClear" /\ CopiesIn(t, tasks') < CopiesIn(t, tasks)
          /\ dispatchState = NoSid
          => /\ \E u \in BagToSet(tasks') : u.pc = "fetchPickup" /\ u.skip = t.skip
             /\ row.status = statusFindingVendor /\ row.avr = t.v /\ row.exp = -1
                  => row'.avr = NoVendor /\ row'.exp = NoExp
     /\ \A t \in BagToSet(tasks) :
          /\ t.pc = "fetchRejected" /\ CopiesIn(t, tasks') < CopiesIn(t, tasks)
          /\ ev'.op = "session" /\ ev'.hit
          => LET c == heap'[ev'.sid].candidates
             IN /\ {c[j] : j \in 1..Len(c)} = Vendors \ (t.skip \cup rejections)
                /\ \A i, j \in 1..Len(c) : i < j => distanceKm(c[i]) < distanceKm(c[j])
                /\ heap'[ev'.sid].index = 0
                /\ t.skip \cup rejections \subseteq heap'[ev'.sid].skipRefs
     /\ ev'.op = "reserve" => ev'.v \notin heap'[ev'.sid].skipRefs]_vars

\* C21 as stated, for every session also when the rejection log cannot be
\* read: no candidate of a new session is in the rejection log.
C21_EveryRejectionExcluded ==
  [][ev'.op = "session" =>
       \A j \in 1..Len(heap'[ev'.sid].candidates) :
         heap'[ev'.sid].candidates[j] \notin rejections]_vars

\* After the restart and one sweeper hit, the session that skips the vendor of
\* the lost offer reserves the other vendor.
C21_Witness ==
  /\ ev.op = "reserve" /\ ev.v = 1
  /\ heap[ev.sid].skipRefs = {2} /\ heap[ev.sid].candidates = <<1>>
  /\ rejections = {} /\ requests = 1

\* C22: a row that is NO_VENDOR_AVAILABLE has no vendor and no deadline.
C22_NoVendorAvailableHasNoOffer ==
  row.status = statusNoVendorAvailable => row.avr = NoVendor /\ row.exp = NoExp

\* C23: once an accept has succeeded (the row is ASSIGNED) no timer is armed
\* and the map holds no session of the pickup, also when the accept arrived
\* while the offer to that vendor was still being sent.
C23_AcceptedHasNoTimerNoSession ==
  row.status = statusAssigned => timers = {} /\ dispatchState = NoSid

\* C24: an offer that was sent (its timer is armed) and whose deadline is
\* still in the future is cleared or replaced in the row only by the accept or
\* the reject of its vendor, by the customer's cancel or by the customer's
\* retry; no other step (timeout handler, sweeper, advance loop) removes it.
C24_UnexpiredOfferEndsOnlyByOwner ==
  [][(hasActiveOffer(row) /\ (\E x \in timers : x.v = row.avr)
      /\ ~(row'.avr = row.avr /\ row'.exp \in {row.exp, TickExp(row.exp)}))
     => \/ ev'.op \in {"accept", "reject"} /\ ev'.v = row.avr
        \/ ev'.op \in {"cancel", "findVendor"}]_vars

\* C25: handleVendorRejection writes the rejection log before its conditional
\* clear and touches nothing else in that step; the write is best effort, so
\* it adds (pickup, v) or, when the log cannot be written, nothing.  A reject
\* of a vendor the row is not offered to is a miss: it leaves the row, the
\* session objects, the map, the timers and the log as they are.  A session
\* that is created while the log can be read has no logged vendor among its
\* candidates.
C25_LateRejectOnlyLogs ==
  [][/\ \A t \in BagToSet(tasks') :
          t.pc = "rejectClear" /\ CopiesIn(t, tasks') > CopiesIn(t, tasks)
          => /\ rejections' \in {rejections, rejections \cup {t.v}}
             /\ row' = row /\ heap' = heap /\ timers' = timers
             /\ dispatchState' = dispatchState
     /\ ev'.op = "reject" /\ ~(row.status = statusFindingVendor /\ row.avr = ev'.v)
          => /\ ~ev'.hit
             /\ row' = row /\ heap' = heap /\ timers' = timers
             /\ dispatchState' = dispatchState /\ rejections' = rejections
     /\ ev'.op = "session" /\ ev'.hit
          => \A j \in 1..Len(heap'[ev'.sid].candidates) :
               heap'[ev'.sid].candidates[j] \notin rejections']_vars

\* C25 as stated: whenever a reject handler stands before its conditional
\* clear, the rejection is in the log.
C25_RejectionLoggedBeforeClear ==
  \A t \in BagToSet(tasks) : t.pc = "rejectClear" => t.v \in rejections

\* V2 posts a reject while the row holds an unexpired offer to V1 with its
\* timer armed: the reject is logged and misses.
C25_Witness ==
  /\ ev.op = "reject" /\ ev.v = 2 /\ ~ev.hit /\ 2 \in rejections
  /\ hasActiveOffer(row) /\ row.avr = 1
  /\ dispatchState # NoSid /\ \E x \in timers : x.v = 1 /\ x.sid = dispatchState

C27_TimerFiresAfterDeadline ==
  [][/\ ev'.op = "offer" /\ ev'.hit
          => \E x \in timers' :
               /\ x.v = ev'.v /\ x.r = TimerDelay
               /\ row'.status = statusFindingVendor /\ row'.avr = x.v /\ row'.exp # NoExp
                    => row'.exp < x.r
     /\ ((/\ row.status = statusFindingVendor /\ row'.status = statusFindingVendor
         /\ row.avr # NoVendor /\ row'.avr = row.avr
         /\ row.exp # NoExp /\ row'.exp # NoExp
         /\ \A x \in timers : x.v = row.avr => row.exp < x.r)
          => \A y \in timers' : y.v = row.avr => row'.exp < y.r)
     /\ \A x \in timers :
          /\ x.r = 0 /\ x \notin timers'
          /\ \E u \in BagToSet(tasks') :
               u.pc = "timeoutRead" /\ u.v = x.v /\ CopiesIn(u, tasks') > CopiesIn(u, tasks)
          /\ row.status = statusFindingVendor /\ row.avr = x.v /\ row.exp # NoExp
          /\ row.exp < x.r
          => IsPast(row.exp) /\ ~IsFuture(row.exp)
     /\ \A t \in BagToSet(tasks) :
          /\ t.pc = "timeoutRead" /\ CopiesIn(t, tasks') < CopiesIn(t, tasks)
          /\ ev'.op # "crash"
          /\ row.status = statusFindingVendor /\ row.avr = t.v /\ IsPast(row.exp)
          => /\ \E u \in BagToSet(tasks') : u.pc = "timeoutClear" /\ u.v = t.v
             /\ row' = row
     /\ \A t \in BagToSet(tasks) :
          /\ t.pc = "timeoutClear" /\ CopiesIn(t, tasks') < CopiesIn(t, tasks)
          /\ ev'.op # "crash"
          /\ row.status = statusFindingVendor /\ row.avr = t.v /\ IsPast(row.exp)
          => row'.status = statusFindingVendor /\ row'.avr = NoVendor /\ row'.exp = NoExp]_vars

\* The timer of V2 has fired one unit after the deadline of the offer that is
\* still in the row, and its handler stands before the clear.
C27_Witness ==
  /\ row.status = statusFindingVendor /\ row.avr = 2 /\ row.exp = -1
  /\ timers = {} /\ requests = 0 /\ dispatchState # NoSid
  /\ tasks = SetToBag({Task("timeoutClear", 2, NoSid, {2})})

\* C28: when pickup-done or the customer's cancel has answered 200, no timer
\* of the pickup is armed and the map holds no session of the pickup.
C28_DoneAndCancelLeaveNoTimer ==
  [][ev'.op \in {"pickupDone", "cancel"} /\ ev'.code = 200
       => timers' = {} /\ dispatchState' = NoSid]_vars

\* C29: dispatchPickup for a pickup that does not exist or whose status is
\* ASSIGNED, ON_THE_WAY, CANCELLED or COMPLETED ends at its first read: the
\* step writes nothing to the store, leaves the map, the sessions and the
\* timers as they are, sends nothing and leaves no handler behind; and with
\* nobody else acting on the pickup, such a row is never written, no session
\* is created and no offer is reserved or sent for it.
C29_DispatchOfTerminalIsNoOp ==
  [][/\ \A t \in BagToSet(tasks) :
          /\ t.pc = "fetchPickup" /\ CopiesIn(t, tasks') < CopiesIn(t, tasks)
          /\ \/ row = NoPickup
             \/ row.status \in {statusAssigned, statusOnTheWay, statusCancelled, statusCompleted}
          => /\ row' = row /\ rejections' = rejections
             /\ dispatchState' = dispatchState /\ heap' = heap /\ timers' = timers
             /\ tasks' = tasks (-) SetToBag({t})
             /\ ev' = NoEvent
     /\ (\/ row = NoPickup
         \/ row.status \in {statusAssigned, statusOnTheWay, statusCancelled, statusCompleted})
          => /\ row'.status = row.status /\ row'.avr = row.avr /\ row'.exp = row.exp
             /\ dispatchState' = NoSid /\ timers' = {}
             /\ ev'.op \notin {"session", "reserve", "offer"}]_vars

\* The dispatch of an ASSIGNED pickup has ended.
C29_Witness ==
  /\ row.status = statusAssigned /\ row.avr = 1
  /\ tasks = EmptyBag /\ dispatchState = NoSid /\ timers = {} /\ ev = NoEvent

\* C30: a dispatch that has passed its first read and whose query of the
\* vendor directory fails or returns no rows creates no session, arms no
\* timer and sends nothing: it goes from the FINDING_VENDOR update to the
\* give-up, which writes the status NO_VENDOR_AVAILABLE and ends the dispatch.
\* The failure of the query is not an error of the dispatch: the handler goes
\* on as with an empty list.
C30_NoVendorsGivesUp ==
  [][/\ \A t \in BagToSet(tasks) :
          /\ t.pc = "beginFinding" /\ CopiesIn(t, tasks') < CopiesIn(t, tasks)
          => /\ row.status \in {statusRequested, statusFindingVendor, statusNoVendorAvailable}
                  => row'.status = statusFindingVendor
             /\ dispatchState' = dispatchState /\ heap' = heap /\ timers' = timers
             /\ ev' = NoEvent
             /\ \E u \in BagToSet(tasks') :
                  /\ u.pc \in {"giveUpNoVendors", "fetchRejected"}
                  /\ tasks' = (tasks (-) SetToBag({t})) (+) SetToBag({u})
     /\ \A t \in BagToSet(tasks) :
          /\ t.pc = "giveUpNoVendors" /\ CopiesIn(t, tasks') < CopiesIn(t, tasks)
          => /\ row'.status = statusNoVendorAvailable
             /\ dispatchState' = dispatchState /\ heap' = heap /\ timers' = timers
             /\ ev' = NoEvent
             /\ tasks' = tasks (-) SetToBag({t})]_vars

\* The dispatch of a pickup whose offer to V1 had expired has ended on an
\* empty vendor list: NO_VENDOR_AVAILABLE, no session, no timer, nothing sent.
C30_Witness ==
  /\ row.status = statusNoVendorAvailable /\ row.avr = 1 /\ row.exp = -1
  /\ tasks = EmptyBag /\ dispatchState = NoSid /\ timers = {}
  /\ ev = NoEvent /\ requests = 0

\* C31, for a pickup that has coordinates: the candidates are the vendor rows
\* of the list, each once; a vendor without coordinates comes after every
\* vendor that has coordinates; among
\* the vendors with coordinates of a pickup with coordinates the distance to
\* the pickup never decreases; and vendors at the same distance (or both
\* without coordinates) keep the order of the list.
C31_RankedByDistanceMissingLast ==
  ev.op = "candidates_ranked" /\ ev.pickup # NoCoord =>
    LET c == ev.candidates
        d(v) == haversineDistanceKm(ev.pickup, v.latitude)
    IN /\ Len(c) = Len(ev.vendors)
       /\ \A k \in 1..Len(ev.vendors) : \E i \in 1..Len(c) : c[i] = ev.vendors[k]
       /\ \A i, j \in 1..Len(c) :
            i < j =>
              /\ c[i].latitude = NoCoord => c[j].latitude = NoCoord
              /\ c[i].latitude = NoCoord /\ c[j].latitude = NoCoord
                   => c[i].vendor_id < c[j].vendor_id
              /\ c[i].latitude # NoCoord /\ c[j].latitude # NoCoord
                   => /\ d(c[i]) <= d(c[j])
                      /\ d(c[i]) = d(c[j]) => c[i].vendor_id < c[j].vendor_id

\* C32: whenever sendOfferToVendor has checked a URL, no offer is sent to a URL
\* whose scheme is neither http nor https; in production no offer is sent to a
\* URL whose host is localhost, 127.0.0.1 or ::1; and outside production an
\* http or https URL with one of these hosts is permitted and the offer is sent.
C32_OfferUrlByEnvSchemeHost ==
  ev.op = "offer_url_checked" =>
    LET loopback == hostname(ev.host) \in {"localhost", "127.0.0.1", "[::1]"}
        web == ev.scheme \in {"http", "https"}
    IN /\ ~web => ~ev.sent
       /\ ev.env = "production" /\ loopback => ~ev.sent
       /\ ev.env # "production" /\ web /\ loopback => ev.permitted /\ ev.sent

\* C33: whenever the loop of tryOfferNext gives up (its final update sets
\* NO_VENDOR_AVAILABLE), every vendor of the session's candidate list that is
\* not in the session's rejectedVendorRefs has had an offer reserved for it in
\* that session.
C33_GiveUpOnlyAfterEveryCandidate ==
  [][\A t \in BagToSet(tasks) :
       tryOfferNext_giveUp(t) =>
         \A j \in 1..Len(heap[t.sid].candidates) :
           heap[t.sid].candidates[j] \in heap[t.sid].tried \cup heap[t.sid].rejectedVendorRefs]_vars

\* C34: an expired offer moves the session on once.  A run of
\* handleOfferTimeout for vendor v whose conditional clear finds v's offer
\* already gone, when the session has already moved past v (another run of the
\* handler, or a reject, has ended the offer and advanced the session), leaves
\* the session's index where the loop head would put it without an increment.
C34_ExpiredOfferAdvancesOnce ==
  [][\A t \in BagToSet(tasks) :
       (/\ handleOfferTimeout_clear(t)
        /\ dispatchState # NoSid
        /\ currentCandidate(heap[dispatchState]) # t.v
        /\ ~clear_expired_offerMatches(row, t.v))
       => heap'[dispatchState].index = SkipRejectedIndex(heap[dispatchState])]_vars

\* C35: a step that takes the row out of NO_VENDOR_AVAILABLE is the find-vendor
\* or the cancel request of the customer; no timer callback, sweeper pass or
\* vendor callback moves such a pickup back to FINDING_VENDOR.
C35_NoVendorAvailableLeftOnlyByCustomer ==
  [][row.status = statusNoVendorAvailable /\ row'.status # statusNoVendorAvailable
       => ev'.op \in {"findVendor", "cancel"}]_vars

\* C36: at every moment at most one timer is armed for the pickup, and an
\* armed timer is the timer of the session that the map holds for the pickup.
C36_OneTimerOfMappedSession ==
  /\ Cardinality(timers) <= 1
  /\ \A x \in timers : dispatchState # NoSid /\ x.sid = dispatchState

\* C37: whenever the map holds a session for the pickup, no loop of
\* tryOfferNext and no other handler is running, and the row is FINDING_VENDOR
\* with an offer to vendor v, the candidate at the session's index is v.
C37_IndexNamesOfferHolder ==
  (/\ dispatchState # NoSid
   /\ tasks = EmptyBag
   /\ row.status = statusFindingVendor
   /\ row.avr # NoVendor)
  => currentCandidate(heap[dispatchState]) = row.avr

\* C38: no step lowers the index of a session, and a reservation made by a
\* session is for a vendor that session has not reserved an offer for before,
\* so no vendor is offered the pickup twice within one session.
C38_IndexMonotoneReserveOnce ==
  [][/\ \A s \in DOMAIN heap \cap DOMAIN heap' : heap'[s].index >= heap[s].index
     /\ ev'.op = "reserve" => ev'.v \notin heap[ev'.sid].tried]_vars

====
